---- MODULE Spec2Model ----
(***************************************************************************)
(* Model of maplibre/src/headless/map.rs: HeadlessMap::new, render_tile,   *)
(* fetch_tile and HeadlessPipelineProcessor.                               *)
(*                                                                         *)
(* The collaborators whose code lives in other modules of the crate        *)
(* (Schedule, RenderGraph, TileRepository, the tile pipeline, the buffer   *)
(* pool) are modelled from their documented behaviour.                     *)
(***************************************************************************)
EXTENDS Integers, Sequences, FiniteSets, TLC

(* ------------------------------ bounds -------------------------------- *)

\* fetch_tile futures that may be suspended at the same time
MaxCalls == 2

\* fetch_tile / render_tile calls made in one behaviour
MaxOps == 2

(* ------------------------------ values -------------------------------- *)

\* WorldTileCoords::default()
DefaultCoords == <<0, 0, 0>>

\* tile coordinates (z, x, y): the default coordinate and another one
Coords == {DefaultCoords, <<2, 1, 1>>}

LayerNames == {"water", "roads"}

None == "None"

\* draw_graph::node::MAIN_PASS, draw_graph::node::COPY
MAIN_PASS == "MAIN_PASS"

COPY == "COPY"

RenderGraphConfigError == "RenderGraphConfigError"

FetchError == "FetchError"

RECURSIVE SeqsUpTo(_, _)
\* the sequences over S of length at most n without a repeated element
SeqsUpTo(S, n) ==
    IF n = 0 THEN {<<>>}
    ELSE LET shorter == SeqsUpTo(S, n - 1)
         IN shorter \cup
            {Append(s, x) : s \in {t \in shorter : Len(t) = n - 1}, x \in S}

Range(s) == {s[i] : i \in 1..Len(s)}

NoRepeat(s) == \A i, j \in 1..Len(s) : s[i] = s[j] => i = j

(* ------------------------ tile repository values ---------------------- *)

\* StoredLayer::TessellatedLayer { coords, layer_name, buffer, feature_indices }
\* (buffer and feature_indices are carried through untouched and left out)
TessellatedLayer(coords, layer_name) ==
    [coords |-> coords, layer_name |-> layer_name]

\* StoredTile::success(coords, layers)
StoredTile_success(coords, layers) ==
    [coords |-> coords, layers |-> layers, status |-> "Success"]

\* tiles a caller builds by hand and gives to render_tile
HandTiles ==
    {[coords |-> c, layers |-> <<>>, status |-> "Pending"] : c \in Coords}
    \cup {StoredTile_success(c, <<TessellatedLayer(c, "water")>>) : c \in Coords}

\* no tile: an empty argument or return slot
NoTile == [coords |-> DefaultCoords, layers |-> <<>>, status |-> "None"]

\* the entries the repository holds for a coordinate
Entries(repository, coords) == {t \in repository : t.coords = coords}

\* TileRepository::put_tile: the entry of the tile's coordinate is replaced
put_tile(repository, tile) ==
    (repository \ Entries(repository, tile.coords)) \cup {tile}

(* ------------------------------ pipeline ------------------------------ *)

\* what the source client returns: the layers of the tile in the order of the
\* byte format, each decodable or not; layer names are unique in a tile
RawLayers == [name : LayerNames, ok : BOOLEAN]

FetchedData ==
    {d \in SeqsUpTo(RawLayers, Cardinality(LayerNames)) :
        NoRepeat([i \in 1..Len(d) |-> d[i].name])}

\* HeadlessPipelineProcessor::default()
HeadlessPipelineProcessor_default == [layers |-> <<>>]

\* layer_tesselation_finished putting the layer in front of the others
layer_tesselation_finished_in_front(processor, coords, layer_data) ==
    [processor EXCEPT
        !.layers = <<TessellatedLayer(coords, layer_data.name)>> \o @]

\* layer_tesselation_finished keeping the layer of the last call only
layer_tesselation_finished_keeps_last(processor, coords, layer_data) ==
    [processor EXCEPT
        !.layers = <<TessellatedLayer(coords, layer_data.name)>>]

\* HeadlessPipelineProcessor::layer_tesselation_finished
layer_tesselation_finished(processor, coords, layer_data) ==
    [processor EXCEPT
        !.layers = Append(@, TessellatedLayer(coords, layer_data.name))]

\* PipelineContext::new(processor); emitted is the record of the callbacks
\* the pipeline made, kept apart from what the processor did with them
PipelineContext_new(processor) ==
    [processor |-> processor, emitted |-> <<>>, runs |-> 0]

RECURSIVE pipeline_stages(_, _, _)
\* the stages of the vector tile pipeline over the layers left to handle:
\* a layer that is requested and decodes is tessellated and handed to the
\* processor, any other layer is dropped silently
pipeline_stages(request, data, context) ==
    IF data = <<>> THEN context
    ELSE LET layer == Head(data)
         IN IF layer.name \in request.layers /\ layer.ok
            THEN pipeline_stages(request, Tail(data),
                    [context EXCEPT
                        !.processor = layer_tesselation_finished(
                                          @, request.coords, layer),
                        !.emitted = Append(@, [coords |-> request.coords,
                                               name |-> layer.name])])
            ELSE pipeline_stages(request, Tail(data), context)

\* build_vector_tile_pipeline().process((request, data), context)
pipeline_process(request, data, context) ==
    pipeline_stages(request, data, [context EXCEPT !.runs = @ + 1])

(* ---------------------------- render graph ---------------------------- *)

NoSubGraph == [present |-> FALSE, nodes |-> <<>>, edges |-> {}]

\* the graphs create_default_render_graph() may hand back when it does not
\* fail: the draw sub-graph with its predefined nodes and edges, MAIN_PASS
\* among them or not
DefaultRenderGraphs ==
    { [present |-> TRUE, nodes |-> <<>>, edges |-> {}],
      [present |-> TRUE, nodes |-> <<MAIN_PASS>>, edges |-> {}],
      [present |-> TRUE, nodes |-> <<MAIN_PASS, "INPUT", "AUX">>,
       edges |-> {<<"INPUT", MAIN_PASS>>}] }

\* RenderGraph::add_node: the node is appended, insertion order is kept
add_node(sub_graph, name) ==
    IF name \in Range(sub_graph.nodes) THEN sub_graph
    ELSE [sub_graph EXCEPT !.nodes = Append(@, name)]

\* RenderGraph::add_node_edge: an edge naming a node that is not in the
\* sub-graph, or an edge that is already there, is refused at once
add_node_edge(sub_graph, output_node, input_node) ==
    IF output_node \notin Range(sub_graph.nodes)
       \/ input_node \notin Range(sub_graph.nodes)
       \/ <<output_node, input_node>> \in sub_graph.edges
    THEN [ok |-> FALSE, error |-> RenderGraphConfigError, graph |-> sub_graph]
    ELSE [ok |-> TRUE, error |-> None,
          graph |-> [sub_graph EXCEPT !.edges = @ \cup {<<output_node, input_node>>}]]

\* every edge of the sub-graph joins two of its nodes
WellFormed(sub_graph) ==
    \A e \in sub_graph.edges :
        e[1] \in Range(sub_graph.nodes) /\ e[2] \in Range(sub_graph.nodes)

\* the place of a node in a sequence of nodes
IndexOf(nodes, name) == CHOOSE i \in 1..Len(nodes) : nodes[i] = name

\* the nodes not run yet whose predecessors have all run
ReadyNodes(sub_graph, done) ==
    { n \in Range(sub_graph.nodes) \ Range(done) :
        \A e \in sub_graph.edges : e[2] = n => e[1] \in Range(done) }

\* the graph-execution stage: the order the nodes of the sub-graph run in,
\* the ready node inserted first running next
RECURSIVE graph_run(_, _)
graph_run(sub_graph, done) ==
    LET ready == ReadyNodes(sub_graph, done)
    IN IF ready = {} THEN done
       ELSE LET n == CHOOSE r \in ready :
                        \A q \in ready :
                           IndexOf(sub_graph.nodes, r) <= IndexOf(sub_graph.nodes, q)
            IN graph_run(sub_graph, Append(done, n))

(* ------------------------------ schedule ------------------------------ *)

\* Schedule::default()
Schedule_default == <<>>

\* Schedule::add_stage: the (label, stage) pair is appended
add_stage(sched, label, stage) ==
    Append(sched, [label |-> label, stage |-> stage])

\* register_default_render_stages: the built-in sequence, the graph runner
\* taking the render graph
register_default_render_stages(sched) ==
    add_stage(add_stage(add_stage(add_stage(sched,
        "Prepare", "UploadStage"),
        "Queue", "QueueStage"),
        "Render", "GraphRunnerStage"),
        "Cleanup", "CleanupStage")

(* ------------------------------- state -------------------------------- *)

VARIABLES
    newPc,      \* position of HeadlessMap::new
    newResult,  \* how HeadlessMap::new ended
    graph,      \* the draw sub-graph of the render graph
    schedule,   \* self.schedule: the (label, stage) pairs in registration order
    repo,       \* map_context.world.tile_repository
    pool,       \* map_context.renderer.state.buffer_pool
    calls,      \* the fetch_tile futures, suspended or not started
    ret,        \* what the last fetch_tile call to finish returned
    frame,      \* the render_tile call in progress, or the last one, and the
                \* order the graph nodes ran in
    ops         \* fetch_tile and render_tile calls made so far

vars == <<newPc, newResult, graph, schedule, repo, pool, calls, ret, frame, ops>>

Calls == 1..MaxCalls

IdleCall == [pc |-> "idle", coords |-> DefaultCoords, layers |-> {}]

NoReturn ==
    [kind |-> "none", error |-> None, call |-> 0, coords |-> DefaultCoords,
     layers |-> {}, fetch |-> "none", data |-> <<>>, runs |-> 0, emitted |-> <<>>, tile |-> NoTile]

IdleFrame ==
    [pc |-> "idle", result |-> "none", tile |-> NoTile, prev |-> NoTile,
     poolAtCall |-> None, log |-> <<>>, failed |-> None, nodes |-> <<>>]

Uninitialized == [state |-> "Uninitialized", used |-> {}]

\* Eventually::Initialized(pool), the pool holding the buffers of `used`
Initialized(used) == [state |-> "Initialized", used |-> used]

\* the state when new is entered; the renderer is built by the caller and handed to new: its buffer pool may
\* be set up already or not
Init ==
    /\ newPc = "create_default_render_graph"
    /\ newResult = [kind |-> "none", error |-> None, at |-> None]
    /\ graph = NoSubGraph
    /\ schedule = Schedule_default
    /\ repo = {}
    /\ pool \in {Uninitialized, Initialized({})}
    /\ calls = [i \in Calls |-> IdleCall]
    /\ ret = NoReturn
    /\ frame = IdleFrame
    /\ ops = 0

(* -------------------------- HeadlessMap::new -------------------------- *)

new_ends(kind, error, at) ==
    /\ newPc' = "returned"
    /\ newResult' = [kind |-> kind, error |-> error, at |-> at]

\* let mut graph = create_default_render_graph()?;
new_create_default_render_graph ==
    /\ newPc = "create_default_render_graph"
    /\ \/ /\ new_ends("Err", RenderGraphConfigError, newPc)
          /\ UNCHANGED graph
       \/ /\ \E g \in DefaultRenderGraphs : graph' = g
          /\ newPc' = "get_sub_graph_mut"
          /\ UNCHANGED newResult
    /\ UNCHANGED <<schedule, repo, pool, calls, ret, frame, ops>>

\* graph.get_sub_graph_mut(draw_graph::NAME).expect("Subgraph does not exist")
new_get_sub_graph_mut ==
    /\ newPc = "get_sub_graph_mut"
    /\ IF graph.present
       THEN newPc' = "add_node" /\ UNCHANGED newResult
       ELSE new_ends("panic", "Subgraph does not exist", newPc)
    /\ UNCHANGED <<graph, schedule, repo, pool, calls, ret, frame, ops>>

\* draw_graph.add_node(draw_graph::node::COPY, CopySurfaceBufferNode::default())
new_add_node ==
    /\ newPc = "add_node"
    /\ graph' = add_node(graph, COPY)
    /\ newPc' = "add_node_edge"
    /\ UNCHANGED <<newResult, schedule, repo, pool, calls, ret, frame, ops>>

\* new_add_node_edge dropping the result of add_node_edge
new_add_node_edge_result_dropped ==
    /\ newPc = "add_node_edge"
    /\ graph' = add_node_edge(graph, MAIN_PASS, COPY).graph
    /\ newPc' = "register_default_render_stages"
    /\ UNCHANGED <<newResult, schedule, repo, pool, calls, ret, frame, ops>>

\* new_add_node_edge adding the edge the other way round
new_add_node_edge_reversed ==
    /\ newPc = "add_node_edge"
    /\ LET r == add_node_edge(graph, COPY, MAIN_PASS)
       IN IF r.ok
          THEN /\ graph' = r.graph
               /\ newPc' = "register_default_render_stages"
               /\ UNCHANGED newResult
          ELSE /\ new_ends("panic", r.error, newPc)
               /\ UNCHANGED graph
    /\ UNCHANGED <<schedule, repo, pool, calls, ret, frame, ops>>

\* draw_graph.add_node_edge(MAIN_PASS, COPY).unwrap(): an error panics
new_add_node_edge ==
    /\ newPc = "add_node_edge"
    /\ LET r == add_node_edge(graph, MAIN_PASS, COPY)
       IN IF r.ok
          THEN /\ graph' = r.graph
               /\ newPc' = "register_default_render_stages"
               /\ UNCHANGED newResult
          ELSE /\ new_ends("panic", r.error, newPc)
               /\ UNCHANGED graph
    /\ UNCHANGED <<schedule, repo, pool, calls, ret, frame, ops>>

\* register_default_render_stages(graph, &mut schedule)
new_register_default_render_stages ==
    /\ newPc = "register_default_render_stages"
    /\ schedule' = register_default_render_stages(schedule)
    /\ newPc' = "add_stage"
    /\ UNCHANGED <<newResult, graph, repo, pool, calls, ret, frame, ops>>

\* new_add_stage leaving the stage out of the schedule
new_add_stage_left_out ==
    /\ newPc = "add_stage"
    /\ newPc' = "Ok"
    /\ UNCHANGED <<newResult, graph, schedule, repo, pool, calls, ret, frame, ops>>

\* schedule.add_stage(RenderStageLabel::Cleanup, WriteSurfaceBufferStage::default())
new_add_stage ==
    /\ newPc = "add_stage"
    /\ schedule' = add_stage(schedule, "Cleanup", "WriteSurfaceBufferStage")
    /\ newPc' = "Ok"
    /\ UNCHANGED <<newResult, graph, repo, pool, calls, ret, frame, ops>>

\* Ok(Self { window_size, kernel, map_context, schedule })
new_Ok ==
    /\ newPc = "Ok"
    /\ new_ends("Ok", None, newPc)
    /\ UNCHANGED <<graph, schedule, repo, pool, calls, ret, frame, ops>>

\* a HeadlessMap exists: new returned Ok
MapBuilt == newPc = "returned" /\ newResult.kind = "Ok"

(* ----------------------- HeadlessMap::fetch_tile ---------------------- *)

\* the lowest future that is not in use
FreeCall(i) ==
    /\ calls[i].pc = "idle"
    /\ \A j \in Calls : j < i => calls[j].pc /= "idle"

\* fetch_tile(coords, source_layers) is called and suspends in
\* source_client.fetch(&coords).await, its only await. render_tile has no
\* await: its steps are taken with every fetch_tile future held where it is,
\* and no fetch_tile step is taken until render_tile has returned.  A caller
\* that shares the map may call render_tile while futures are suspended.
fetch_tile_call(i, coords, source_layers) ==
    /\ MapBuilt
    /\ frame.pc = "idle"
    /\ ops < MaxOps
    /\ FreeCall(i)
    /\ calls' = [calls EXCEPT
                    ![i] = [pc |-> "await", coords |-> coords,
                            layers |-> source_layers]]
    /\ ops' = ops + 1
    /\ UNCHANGED <<newPc, newResult, graph, schedule, repo, pool, ret, frame>>

\* fetch_tile_err going on with empty data instead of returning the error
fetch_tile_err_goes_on(i) ==
    /\ frame.pc = "idle"
    /\ calls[i].pc = "await"
    /\ ret' = [NoReturn EXCEPT
                  !.kind = "Ok", !.call = i, !.fetch = "Err", !.runs = 1,
                  !.coords = calls[i].coords, !.layers = calls[i].layers,
                  !.tile = StoredTile_success(calls[i].coords, <<>>)]
    /\ calls' = [calls EXCEPT ![i] = IdleCall]
    /\ UNCHANGED <<newPc, newResult, graph, schedule, repo, pool, frame, ops>>

\* source_client.fetch(&coords).await? with the fetch failing: the error is
\* returned
fetch_tile_err(i) ==
    /\ frame.pc = "idle"
    /\ calls[i].pc = "await"
    /\ ret' = [NoReturn EXCEPT
                  !.kind = "Err", !.error = FetchError, !.call = i,
                  !.fetch = "Err",
                  !.coords = calls[i].coords, !.layers = calls[i].layers]
    /\ calls' = [calls EXCEPT ![i] = IdleCall]
    /\ UNCHANGED <<newPc, newResult, graph, schedule, repo, pool, frame, ops>>

\* TileRequest { coords: WorldTileCoords::default(), layers: source_layers }
TileRequest(coords, source_layers) ==
    [coords |-> DefaultCoords, layers |-> source_layers]

\* fetch_tile_ok keeping the tile it built in the repository as well
fetch_tile_ok_stores_tile(i, data) ==
    /\ frame.pc = "idle"
    /\ calls[i].pc = "await"
    /\ LET coords == calls[i].coords
           source_layers == calls[i].layers
           pipeline_context ==
               pipeline_process(
                   TileRequest(coords, source_layers), data,
                   PipelineContext_new(HeadlessPipelineProcessor_default))
           tile == StoredTile_success(coords, pipeline_context.processor.layers)
       IN /\ ret' = [kind |-> "Ok", error |-> None, call |-> i,
                     coords |-> coords, layers |-> source_layers,
                     fetch |-> "Ok", data |-> data,
                     runs |-> pipeline_context.runs,
                     emitted |-> pipeline_context.emitted,
                     tile |-> tile]
          /\ repo' = put_tile(repo, tile)
    /\ calls' = [calls EXCEPT ![i] = IdleCall]
    /\ UNCHANGED <<newPc, newResult, graph, schedule, pool, frame, ops>>

\* fetch_tile_ok resumed between two steps of a render_tile call as well
fetch_tile_ok_while_rendering(i, data) ==
    /\ calls[i].pc = "await"
    /\ LET coords == calls[i].coords
           source_layers == calls[i].layers
           pipeline_context ==
               pipeline_process(
                   TileRequest(coords, source_layers), data,
                   PipelineContext_new(HeadlessPipelineProcessor_default))
           processor == pipeline_context.processor
       IN ret' = [kind |-> "Ok", error |-> None, call |-> i,
                  coords |-> coords, layers |-> source_layers,
                  fetch |-> "Ok", data |-> data,
                  runs |-> pipeline_context.runs,
                  emitted |-> pipeline_context.emitted,
                  tile |-> StoredTile_success(coords, processor.layers)]
    /\ calls' = [calls EXCEPT ![i] = IdleCall]
    /\ UNCHANGED <<newPc, newResult, graph, schedule, repo, pool, frame, ops>>

\* fetch_tile_ok marking the tile Failed when a requested layer is missing
fetch_tile_ok_strict(i, data) ==
    /\ frame.pc = "idle"
    /\ calls[i].pc = "await"
    /\ LET coords == calls[i].coords
           source_layers == calls[i].layers
           pipeline_context ==
               pipeline_process(
                   TileRequest(coords, source_layers), data,
                   PipelineContext_new(HeadlessPipelineProcessor_default))
           processor == pipeline_context.processor
       IN ret' = [kind |-> "Ok", error |-> None, call |-> i,
                  coords |-> coords, layers |-> source_layers,
                  fetch |-> "Ok", data |-> data,
                  runs |-> pipeline_context.runs,
                  emitted |-> pipeline_context.emitted,
                  tile |-> IF Len(processor.layers) < Cardinality(source_layers)
                           THEN [coords |-> coords, layers |-> processor.layers,
                                 status |-> "Failed"]
                           ELSE StoredTile_success(coords, processor.layers)]
    /\ calls' = [calls EXCEPT ![i] = IdleCall]
    /\ UNCHANGED <<newPc, newResult, graph, schedule, repo, pool, frame, ops>>

\* fetch_tile_ok going on with the processor of the call that returned last
fetch_tile_ok_shared_processor(i, data) ==
    /\ frame.pc = "idle"
    /\ calls[i].pc = "await"
    /\ LET coords == calls[i].coords
           source_layers == calls[i].layers
           pipeline_context ==
               pipeline_process(
                   TileRequest(coords, source_layers), data,
                   PipelineContext_new([layers |-> ret.tile.layers]))
           processor == pipeline_context.processor
       IN ret' = [kind |-> "Ok", error |-> None, call |-> i,
                  coords |-> coords, layers |-> source_layers,
                  fetch |-> "Ok", data |-> data,
                  runs |-> pipeline_context.runs,
                  emitted |-> pipeline_context.emitted,
                  tile |-> StoredTile_success(coords, processor.layers)]
    /\ calls' = [calls EXCEPT ![i] = IdleCall]
    /\ UNCHANGED <<newPc, newResult, graph, schedule, repo, pool, frame, ops>>

\* the rest of fetch_tile once the fetch has handed back data: the pipeline
\* runs over a fresh processor and the tile is built from what it collected
fetch_tile_ok(i, data) ==
    /\ frame.pc = "idle"
    /\ calls[i].pc = "await"
    /\ LET coords == calls[i].coords
           source_layers == calls[i].layers
           pipeline_context ==
               pipeline_process(
                   TileRequest(coords, source_layers), data,
                   PipelineContext_new(HeadlessPipelineProcessor_default))
           processor == pipeline_context.processor
       IN ret' = [kind |-> "Ok", error |-> None, call |-> i,
                  coords |-> coords, layers |-> source_layers,
                  fetch |-> "Ok", data |-> data,
                  runs |-> pipeline_context.runs,
                  emitted |-> pipeline_context.emitted,
                  tile |-> StoredTile_success(coords, processor.layers)]
    /\ calls' = [calls EXCEPT ![i] = IdleCall]
    /\ UNCHANGED <<newPc, newResult, graph, schedule, repo, pool, frame, ops>>

(* ---------------------- HeadlessMap::render_tile ---------------------- *)

\* BufferPool::clear: the buffers are dropped, the pool stays
pool_clear(p) == [p EXCEPT !.used = {}]

\* the tiles render_tile may be given: built by hand, or the tile fetch_tile
\* returned last
TileInputs ==
    HandTiles \cup (IF ret.kind = "Ok" THEN {ret.tile} ELSE {})

\* render_tile_clear leaving the buffers of the last frame in the pool
render_tile_clear_skipped(tile) ==
    /\ MapBuilt
    /\ frame.pc = "idle"
    /\ ops < MaxOps
    /\ frame' = [pc |-> "put_tile", result |-> "none", tile |-> tile,
                 prev |-> frame.tile, poolAtCall |-> pool.state,
                 log |-> <<>>, failed |-> None, nodes |-> <<>>]
    /\ ops' = ops + 1
    /\ UNCHANGED <<newPc, newResult, graph, schedule, repo, pool, calls, ret>>

\* render_tile_clear taking the pool for granted: without one the call fails
render_tile_clear_expects_pool(tile) ==
    /\ MapBuilt
    /\ frame.pc = "idle"
    /\ ops < MaxOps
    /\ pool' = pool_clear(pool)
    /\ frame' = IF pool.state = "Initialized"
                THEN [pc |-> "put_tile", result |-> "none", tile |-> tile,
                      prev |-> frame.tile, poolAtCall |-> pool.state,
                      log |-> <<"clear">>, failed |-> None, nodes |-> <<>>]
                ELSE [pc |-> "idle", result |-> "panic", tile |-> tile,
                      prev |-> frame.tile, poolAtCall |-> pool.state,
                      log |-> <<>>, failed |-> None, nodes |-> <<>>]
    /\ ops' = ops + 1
    /\ UNCHANGED <<newPc, newResult, graph, schedule, repo, calls, ret>>

\* render_tile_clear giving the pool up instead of clearing it
render_tile_clear_releases_pool(tile) ==
    /\ MapBuilt
    /\ frame.pc = "idle"
    /\ ops < MaxOps
    /\ pool' = Uninitialized
    /\ frame' = [pc |-> "put_tile", result |-> "none", tile |-> tile,
                 prev |-> frame.tile, poolAtCall |-> pool.state,
                 log |-> IF pool.state = "Initialized"
                         THEN <<"clear">> ELSE <<>>,
                 failed |-> None, nodes |-> <<>>]
    /\ ops' = ops + 1
    /\ UNCHANGED <<newPc, newResult, graph, schedule, repo, calls, ret>>

\* render_tile(tile) is called:
\* if let Eventually::Initialized(pool) = ...buffer_pool_mut() { pool.clear(); }
render_tile_clear(tile) ==
    /\ MapBuilt
    /\ frame.pc = "idle"
    /\ ops < MaxOps
    /\ pool' = IF pool.state = "Initialized" THEN pool_clear(pool) ELSE pool
    /\ frame' = [pc |-> "put_tile", result |-> "none", tile |-> tile,
                 prev |-> frame.tile, poolAtCall |-> pool.state,
                 log |-> IF pool.state = "Initialized"
                         THEN <<"clear">> ELSE <<>>,
                 failed |-> None, nodes |-> <<>>]
    /\ ops' = ops + 1
    /\ UNCHANGED <<newPc, newResult, graph, schedule, repo, calls, ret>>

\* render_tile_put_tile writing the tile only where the repository has no
\* entry yet
render_tile_put_tile_if_absent ==
    /\ frame.pc = "put_tile"
    /\ repo' = IF Entries(repo, frame.tile.coords) = {}
               THEN put_tile(repo, frame.tile) ELSE repo
    /\ frame' = [frame EXCEPT !.pc = "run", !.log = Append(@, "put_tile")]
    /\ UNCHANGED <<newPc, newResult, graph, schedule, pool, calls, ret, ops>>

\* render_tile_put_tile making the tile the only entry of the repository
render_tile_put_tile_alone ==
    /\ frame.pc = "put_tile"
    /\ repo' = {frame.tile}
    /\ frame' = [frame EXCEPT !.pc = "run", !.log = Append(@, "put_tile")]
    /\ UNCHANGED <<newPc, newResult, graph, schedule, pool, calls, ret, ops>>

\* context.world.tile_repository.put_tile(tile)
render_tile_put_tile ==
    /\ frame.pc = "put_tile"
    /\ repo' = put_tile(repo, frame.tile)
    /\ frame' = [frame EXCEPT !.pc = "run", !.log = Append(@, "put_tile")]
    /\ UNCHANGED <<newPc, newResult, graph, schedule, pool, calls, ret, ops>>

\* the stages the schedule run in progress has executed
StagesRun == Len(SelectSeq(frame.log, LAMBDA e : e \notin {"clear", "put_tile"}))

\* Stage::run of one stage on the map context: the upload stage puts the
\* buffers of the repository's tiles into the pool once there is one
stage_run(stage, repository, p) ==
    IF stage.stage = "UploadStage" /\ p.state = "Initialized"
    THEN [p EXCEPT !.used = @ \cup {t.coords : t \in repository}]
    ELSE p

\* Schedule::run: the stage to run next, in registration order
next_stage(sched, done) == sched[done + 1]

\* self.schedule.run(&mut self.map_context), one stage at a time
render_tile_run ==
    /\ frame.pc = "run"
    /\ StagesRun < Len(schedule)
    /\ LET stage == next_stage(schedule, StagesRun)
       IN /\ pool' = stage_run(stage, repo, pool)
          /\ frame' = [frame EXCEPT
                          !.log = Append(@, stage.stage),
                          !.nodes = IF stage.stage = "GraphRunnerStage"
                                    THEN graph_run(graph, <<>>) ELSE @]
    /\ UNCHANGED <<newPc, newResult, graph, schedule, repo, calls, ret, ops>>

\* render_tile_stage_fails with the failure caught: the write is undone and
\* the call returns Ok
render_tile_stage_fails_caught ==
    /\ frame.pc = "run"
    /\ StagesRun < Len(schedule)
    /\ repo' = repo \ {frame.tile}
    /\ frame' = [frame EXCEPT
                    !.pc = "idle", !.result = "Ok",
                    !.failed = next_stage(schedule, StagesRun).stage]
    /\ UNCHANGED <<newPc, newResult, graph, schedule, pool, calls, ret, ops>>

\* self.schedule.run(&mut self.map_context) with the next stage failing:
\* run hands back no Result and render_tile catches nothing, so the panic
\* leaves render_tile where it is, the stages that follow not run; the map
\* is not called again
render_tile_stage_fails ==
    /\ frame.pc = "run"
    /\ StagesRun < Len(schedule)
    /\ frame' = [frame EXCEPT
                    !.pc = "panicked", !.result = "panic",
                    !.failed = next_stage(schedule, StagesRun).stage]
    /\ UNCHANGED <<newPc, newResult, graph, schedule, repo, pool, calls, ret, ops>>

\* render_tile_Ok registering one more stage once the schedule has run
render_tile_Ok_adds_stage ==
    /\ frame.pc = "run"
    /\ StagesRun = Len(schedule)
    /\ schedule' = add_stage(schedule, "Cleanup", "WriteSurfaceBufferStage")
    /\ frame' = [frame EXCEPT !.pc = "idle", !.result = "Ok"]
    /\ UNCHANGED <<newPc, newResult, graph, repo, pool, calls, ret, ops>>

\* Ok(()) once the schedule has run
render_tile_Ok ==
    /\ frame.pc = "run"
    /\ StagesRun = Len(schedule)
    /\ frame' = [frame EXCEPT !.pc = "idle", !.result = "Ok"]
    /\ UNCHANGED <<newPc, newResult, graph, schedule, repo, pool, calls, ret, ops>>

(* ------------------------------ renderer ------------------------------ *)

\* the renderer sets its buffer pool up (Eventually::initialize), outside
\* the calls of the map
renderer_initialize ==
    /\ MapBuilt
    /\ frame.pc = "idle"
    /\ pool.state = "Uninitialized"
    /\ pool' = Initialized({})
    /\ UNCHANGED <<newPc, newResult, graph, schedule, repo, calls, ret, frame, ops>>

(* --------------------------- specification ---------------------------- *)

Next ==
    \/ new_create_default_render_graph
    \/ new_get_sub_graph_mut
    \/ new_add_node
    \/ new_add_node_edge
    \/ new_register_default_render_stages
    \/ new_add_stage
    \/ new_Ok
    \/ \E i \in Calls, c \in Coords, l \in SUBSET LayerNames :
           fetch_tile_call(i, c, l)
    \/ \E i \in Calls : fetch_tile_err(i)
    \/ \E i \in Calls, d \in FetchedData : fetch_tile_ok(i, d)
    \/ \E t \in TileInputs : render_tile_clear(t)
    \/ render_tile_put_tile
    \/ render_tile_run
    \/ render_tile_stage_fails
    \/ render_tile_Ok
    \/ renderer_initialize

Spec == Init /\ [][Next]_vars

(* ------------------------------- claims ------------------------------- *)

\* a render_tile call has got past its repository write
Written == frame.pc = "run" \/ (frame.pc = "idle" /\ frame.result = "Ok")

\* C1: overwrite semantics. Once a render_tile(tileB) that follows a
\* render_tile(tileA) has written the repository, the entry of tileB's
\* coordinate is tileB, whatever tileA was, its coordinate being tileB's or not.
C1_Overwrite ==
    (Written /\ frame.prev /= NoTile)
        => Entries(repo, frame.tile.coords) = {frame.tile}

\* two calls with different tiles of one coordinate have completed
C1_Witness ==
    /\ frame.pc = "idle"
    /\ frame.result = "Ok"
    /\ frame.prev /= NoTile
    /\ frame.prev.coords = frame.tile.coords
    /\ frame.prev /= frame.tile
    /\ Entries(repo, frame.tile.coords) = {frame.tile}

\* a step of a fetch_tile call: its call, or its return
FetchStep == calls' /= calls \/ ret' /= ret

\* C2: fetch_tile never mutates the repository. A step of fetch_tile, its
\* call or its return with a tile or with an error, leaves the repository,
\* the buffer pool and the schedule as they were, and the repository changes
\* in the put_tile step of render_tile only.
C2_FetchMutatesNothing ==
    [][ /\ FetchStep => UNCHANGED <<repo, pool, schedule, graph>>
        /\ repo' /= repo => (frame.pc = "put_tile" /\ ~FetchStep) ]_vars

\* a fetch_tile returned a tile after a render_tile wrote the repository,
\* which holds what render_tile wrote and nothing else
C2_Witness ==
    /\ ret.kind = "Ok"
    /\ ret.tile.layers /= <<>>
    /\ frame.result = "Ok"
    /\ repo = {frame.tile}
    /\ ret.tile \notin repo

\* C3: when the source fetch fails, fetch_tile returns the fetch error, the
\* pipeline is not run, the processor is not called, no tile is produced and
\* the repository is as it was.
C3_FetchError ==
    [][ (ret' /= ret /\ ret'.fetch = "Err")
          => /\ ret'.kind = "Err"
             /\ ret'.error = FetchError
             /\ ret'.runs = 0
             /\ ret'.emitted = <<>>
             /\ ret'.tile = NoTile
             /\ repo' = repo ]_vars

\* a fetch_tile whose fetch failed has returned, the repository holding a tile
C3_Witness ==
    /\ ret.fetch = "Err"
    /\ ret.kind = "Err"
    /\ ret.layers /= {}
    /\ repo /= {}

\* the layers of a tile as the callbacks that would have built them
AsCallbacks(layers) ==
    [i \in 1..Len(layers) |->
        [coords |-> layers[i].coords, name |-> layers[i].layer_name]]

\* C4: when the source fetch succeeds, fetch_tile(c, L) returns a tile of
\* coordinate c and status Success whose layers are the layers the pipeline
\* handed to the processor in this call, in the order it handed them over,
\* none added, dropped or moved.
C4_TileOfEmittedLayers ==
    ret.fetch = "Ok"
        => /\ ret.kind = "Ok"
           /\ ret.tile.coords = ret.coords
           /\ ret.tile.status = "Success"
           /\ ret.runs = 1
           /\ AsCallbacks(ret.tile.layers) = ret.emitted

\* a fetch_tile of the non-default coordinate returned a tile of two layers,
\* roads emitted before water
C4_Witness ==
    /\ ret.fetch = "Ok"
    /\ ret.coords /= DefaultCoords
    /\ Len(ret.emitted) = 2
    /\ ret.emitted[1].name = "roads"
    /\ ret.tile.layers[1].layer_name = "roads"
    /\ ret.tile.layers[2].layer_name = "water"

\* the layer of that name is in the fetched data and decodes
Decodable(data, name) ==
    \E i \in 1..Len(data) : data[i].name = name /\ data[i].ok

\* how many elements of the sequence satisfy Test
Count(s, Test(_)) == Len(SelectSeq(s, Test))

\* C5: pipeline filtering. The processor is called once for each layer name
\* that is requested and decodable from the fetched bytes and never for any
\* other name, so the returned tile holds one layer for each such name and
\* none for the others.
C5_PipelineFiltering ==
    ret.fetch = "Ok"
        => \A n \in LayerNames :
              LET wanted == n \in ret.layers /\ Decodable(ret.data, n)
                  IsCallback(e) == e.name = n
                  IsLayer(l) == l.layer_name = n
              IN /\ Count(ret.emitted, IsCallback) = IF wanted THEN 1 ELSE 0
                 /\ Count(ret.tile.layers, IsLayer) = IF wanted THEN 1 ELSE 0

\* the data held a requested layer that decodes, a requested layer that does
\* not, and a request named both: the tile holds the first alone
C5_Witness ==
    /\ ret.fetch = "Ok"
    /\ ret.layers = LayerNames
    /\ Len(ret.data) = 2
    /\ \E i, j \in 1..2 : ret.data[i].ok /\ ~ret.data[j].ok
    /\ Len(ret.tile.layers) = 1
    /\ Decodable(ret.data, ret.tile.layers[1].layer_name)

\* the stages of a schedule in registration order
StageNames(sched) == [i \in 1..Len(sched) |-> sched[i].stage]

\* the stages the render_tile call has run, in the order they ran
StageLog == SelectSeq(frame.log, LAMBDA e : e \notin {"clear", "put_tile"})

\* the steps of a render_tile call before its schedule run
StepsBeforeRun ==
    (IF frame.poolAtCall = "Initialized" THEN <<"clear">> ELSE <<>>)
        \o <<"put_tile">>

\* a render_tile call has returned Ok
Rendered == frame.pc = "idle" /\ frame.result = "Ok"

\* C6: every render_tile(tile) call clears the pool if it is Initialized,
\* then writes the tile under its coordinate, then runs the schedule, each
\* once and in this order; every stage of the run finds the tile in the
\* repository and the clear done.
C6_ThreeStepsInOrder ==
    /\ frame.pc = "put_tile"
          => /\ frame.log = SubSeq(StepsBeforeRun, 1, Len(StepsBeforeRun) - 1)
             /\ pool.used = {}
    /\ Written
          => /\ frame.log = StepsBeforeRun \o StageLog
             /\ Entries(repo, frame.tile.coords) = {frame.tile}
    /\ (frame.pc = "run" /\ StageLog = <<>>) => pool.used = {}
    /\ Rendered => Len(StageLog) = Len(schedule)

\* a second call has run its first stage on an Initialized pool that held the
\* buffers of the first call's tile, another coordinate's
C6_Witness ==
    /\ frame.pc = "run"
    /\ frame.prev /= NoTile
    /\ frame.prev.coords /= frame.tile.coords
    /\ frame.log = <<"clear", "put_tile", "UploadStage">>
    /\ pool.used = {frame.prev.coords, frame.tile.coords}

\* C7: schedule completeness. In every run, every registered stage, the
\* built-in ones and the stage added at the Cleanup slot in new, runs once
\* and in registration order: none skipped, repeated or moved.
C7_ScheduleCompleteness ==
    /\ Written
          => StageLog = SubSeq(StageNames(schedule), 1, Len(StageLog))
    /\ Rendered
          => /\ StageLog = StageNames(schedule)
             /\ NoRepeat(StageLog)
             /\ StageLog =
                  StageNames(register_default_render_stages(Schedule_default))
                      \o <<"WriteSurfaceBufferStage">>
             /\ schedule[Len(schedule)].label = "Cleanup"

\* the second call's run is over, the stage added in new having run last
C7_Witness ==
    /\ Rendered
    /\ frame.prev /= NoTile
    /\ Len(StageLog) > 1
    /\ StageLog[Len(StageLog)] = "WriteSurfaceBufferStage"

\* C8: idempotent clear. With the pool Uninitialized, the clear step of
\* render_tile raises no error, clears nothing and leaves the pool
\* Uninitialized, and render_tile goes on to write the repository and to run
\* the schedule: the call fails only where a stage of that run fails.
C8_IdempotentClear ==
    frame.poolAtCall = "Uninitialized"
        => /\ (frame.result /= "Ok" /\ frame.result /= "none")
                 => /\ frame.result = "panic"
                    /\ frame.pc = "panicked"
                    /\ frame.failed \in Range(StageNames(schedule))
                    /\ "put_tile" \in Range(frame.log)
           /\ "clear" \notin Range(frame.log)
           /\ frame.pc /= "idle" => pool = Uninitialized
           /\ frame.pc = "idle"
                 => /\ frame.result = "Ok"
                    /\ frame.log = <<"put_tile">> \o StageNames(schedule)
                    /\ Entries(repo, frame.tile.coords) = {frame.tile}

\* a call made with the pool Uninitialized has returned Ok, the pool still
\* Uninitialized and the tile in the repository
C8_Witness ==
    /\ Rendered
    /\ frame.poolAtCall = "Uninitialized"
    /\ pool = Uninitialized
    /\ frame.tile \in repo

\* new has got past its add_node_edge call
PastAddNodeEdge ==
    \/ newPc \in {"register_default_render_stages", "add_stage", "Ok"}
    \/ newPc = "returned" /\ newResult.at \in {"add_node_edge", "Ok"}

\* C9: fail-fast graph validation. An edge naming a node that is not in the
\* sub-graph is refused with RenderGraphConfigError by the add call itself,
\* before any schedule run: new goes no further, and no frame ever runs on a
\* graph holding an edge to a missing node.
C9_FailFastGraphValidation ==
    /\ (PastAddNodeEdge /\ ~({MAIN_PASS, COPY} \subseteq Range(graph.nodes)))
          => /\ newPc = "returned"
             /\ newResult.kind /= "Ok"
             /\ newResult.error = RenderGraphConfigError
             /\ newResult.at = "add_node_edge"
             /\ <<MAIN_PASS, COPY>> \notin graph.edges
             /\ schedule = Schedule_default
    /\ (MapBuilt \/ frame /= IdleFrame \/ ops > 0)
          => /\ WellFormed(graph)
             /\ <<MAIN_PASS, COPY>> \in graph.edges

\* new ended in its add_node_edge call, MAIN_PASS missing from the sub-graph
C9_Witness ==
    /\ newPc = "returned"
    /\ newResult.at = "add_node_edge"
    /\ newResult.error = RenderGraphConfigError
    /\ MAIN_PASS \notin Range(graph.nodes)
    /\ COPY \in Range(graph.nodes)

\* C10: new ends by returning a map or by returning RenderGraphConfigError
\* as an error value; when building the default graph or adding the
\* MAIN_PASS -> COPY edge fails, it returns RenderGraphConfigError and no map.
C10_MapOrConfigError ==
    newPc = "returned"
        => /\ newResult.kind \in {"Ok", "Err"}
           /\ newResult.at \in {"create_default_render_graph", "add_node_edge"}
                 => /\ newResult.kind = "Err"
                    /\ newResult.error = RenderGraphConfigError

\* C11: repository invariant. The repository holds at most one tile for a
\* coordinate at any time; a render_tile(t) makes t the entry of t's
\* coordinate, leaves the entry of every other coordinate as it was and
\* removes none, and nothing else changes the repository: each coordinate
\* maps to the tile of the last render_tile call made with it.
C11_RepositoryInvariant ==
    /\ [](\A c \in Coords : Cardinality(Entries(repo, c)) <= 1)
    /\ [](\A t \in repo : t.coords \in Coords)
    /\ [][ repo' /= repo
             => /\ frame.pc = "put_tile"
                /\ Entries(repo', frame.tile.coords) = {frame.tile}
                /\ \A c \in Coords \ {frame.tile.coords} :
                      Entries(repo', c) = Entries(repo, c) ]_vars
    /\ [][ \A c \in Coords : Entries(repo, c) /= {} => Entries(repo', c) /= {} ]_vars

\* two calls with tiles of different coordinates have returned: the
\* repository holds both tiles, one for each coordinate
C11_Witness ==
    /\ frame.pc = "idle"
    /\ frame.result = "Ok"
    /\ frame.prev /= NoTile
    /\ frame.prev.coords /= frame.tile.coords
    /\ repo = {frame.prev, frame.tile}
    /\ \A c \in Coords : Cardinality(Entries(repo, c)) = 1

\* C12: a stage failure in the schedule run is not caught by render_tile.
\* The call ends in the failure and not in Ok, the stages registered before
\* the failing one have run and none after it, and the repository write and
\* the pool clear made before the run stay as they are.
C12_StageFailurePropagates ==
    /\ [](frame.failed /= None
            => /\ frame.result = "panic"
               /\ frame.pc = "panicked"
               /\ frame.log = StepsBeforeRun \o StageLog
               /\ StageLog = SubSeq(StageNames(schedule), 1, Len(StageLog))
               /\ Len(StageLog) < Len(schedule)
               /\ frame.failed = StageNames(schedule)[Len(StageLog) + 1]
               /\ frame.failed \notin Range(StageLog)
               /\ Entries(repo, frame.tile.coords) = {frame.tile}
               /\ pool.state = frame.poolAtCall
               /\ StageLog = <<>> => pool.used = {})
    /\ [][frame.failed /= None => UNCHANGED <<frame, repo, pool>>]_vars

\* the graph runner stage failed in a call made on an Initialized pool: the
\* two stages before it have run, the tile is in the repository and the pool
\* holds its buffers and no others
C12_Witness ==
    /\ frame.result = "panic"
    /\ frame.failed = "GraphRunnerStage"
    /\ StageLog = <<"UploadStage", "QueueStage">>
    /\ frame.prev /= NoTile
    /\ frame.prev.coords = frame.tile.coords
    /\ repo = {frame.tile}
    /\ frame.poolAtCall = "Initialized"
    /\ pool.used = {frame.tile.coords}

\* C13: buffer-pool lifecycle. No step of fetch_tile or render_tile takes the
\* pool from Uninitialized to Initialized or back: an Uninitialized pool
\* stays so until the renderer sets it up, outside the calls of the map, and
\* an Initialized pool stays Initialized, render_tile emptying it only.
C13_PoolLifecycle ==
    [][ /\ (frame' /= frame \/ FetchStep) => pool'.state = pool.state
        /\ pool'.state /= pool.state
              => /\ pool.state = "Uninitialized"
                 /\ pool' = Initialized({})
                 /\ frame.pc = "idle"
                 /\ UNCHANGED <<frame, calls, ret, repo, ops>>
        /\ pool.state = "Initialized" => pool'.state = "Initialized" ]_vars

\* a call made with the pool Uninitialized returned with it Uninitialized,
\* and the renderer has set the pool up since
C13_Witness ==
    /\ frame.pc = "idle"
    /\ frame.result = "Ok"
    /\ frame.poolAtCall = "Uninitialized"
    /\ ret.kind = "Ok"
    /\ pool = Initialized({})

\* C14: setup-only mutation. Every step that adds a node or an edge to the
\* graph or a stage to the schedule is a step of new, taken before any
\* fetch_tile or render_tile call is made; once new has returned, no step
\* changes the graph or the schedule, so every run sees the same graph and
\* the same stage list.
C14_SetupOnlyMutation ==
    /\ []((ops > 0 \/ frame /= IdleFrame) => MapBuilt)
    /\ [][ (graph' /= graph \/ schedule' /= schedule)
              => /\ newPc /= "returned"
                 /\ ops = 0
                 /\ frame = IdleFrame
                 /\ UNCHANGED <<repo, pool, calls, ret, frame, ops>> ]_vars
    /\ [][ newPc = "returned" => UNCHANGED <<graph, schedule>> ]_vars

\* the second of two runs is under way on a built map: graph and schedule
\* are those new left
C14_Witness ==
    /\ MapBuilt
    /\ frame.pc = "run"
    /\ frame.prev /= NoTile
    /\ StagesRun = 2
    /\ <<MAIN_PASS, COPY>> \in graph.edges
    /\ Len(schedule) = Len(register_default_render_stages(Schedule_default)) + 1

\* the graph-execution stage of the frame has run
GraphRan == "GraphRunnerStage" \in Range(frame.log)

\* the node run at place k was ready, and no ready node was inserted before it
LowestReady(k) ==
    LET done == SubSeq(frame.nodes, 1, k - 1)
    IN /\ frame.nodes[k] \in ReadyNodes(graph, done)
       /\ \A q \in ReadyNodes(graph, done) :
             IndexOf(graph.nodes, frame.nodes[k]) <= IndexOf(graph.nodes, q)

\* C15: render-graph execution order. In every frame the graph-execution
\* stage runs each node of the sub-graph once, the predecessor of every edge
\* before its successor, MAIN_PASS before the COPY node added in new, and of
\* the nodes ready to run the one inserted first runs next, so that the
\* order is the same in every run of a map built the same way.
C15_GraphExecutionOrder ==
    /\ ~GraphRan => frame.nodes = <<>>
    /\ GraphRan
          => /\ NoRepeat(frame.nodes)
             /\ Range(frame.nodes) = Range(graph.nodes)
             /\ \A e \in graph.edges :
                   IndexOf(frame.nodes, e[1]) < IndexOf(frame.nodes, e[2])
             /\ IndexOf(frame.nodes, MAIN_PASS) < IndexOf(frame.nodes, COPY)
             /\ \A k \in 1..Len(frame.nodes) : LowestReady(k)

\* a second frame has run the graph of four nodes, where two nodes were ready
\* at once twice: the order is neither insertion order nor the other
\* topological orders
C15_Witness ==
    /\ GraphRan
    /\ frame.prev /= NoTile
    /\ graph.nodes = <<MAIN_PASS, "INPUT", "AUX", COPY>>
    /\ frame.nodes = <<"INPUT", MAIN_PASS, "AUX", COPY>>

\* a render_tile call is between its first step and its return
InRenderTile == frame.pc \in {"put_tile", "run"}

\* C16: the fetch inside fetch_tile is the only point where calls on one map
\* interleave. A fetch_tile call is either not started or suspended in its
\* fetch, the pipeline run and the making of the tile being one step; from
\* the first step of a render_tile call to its return no fetch_tile call
\* starts, resumes or returns and the renderer does not touch the pool, and
\* every stage of the run finds under the frame's coordinate the frame's
\* tile and nothing else.
C16_OnlyFetchSuspends ==
    /\ [](\A i \in Calls : calls[i].pc \in {"idle", "await"})
    /\ [](frame.pc = "run" => Entries(repo, frame.tile.coords) = {frame.tile})
    /\ [][ InRenderTile
             => /\ UNCHANGED <<calls, ret, ops>>
                /\ frame' /= frame
                /\ frame'.tile = frame.tile ]_vars
    /\ [][ FetchStep => (frame.pc = "idle" /\ UNCHANGED <<frame, repo, pool>>) ]_vars

\* a frame is in its run, two stages done, while a fetch_tile call made
\* before it is suspended in its fetch
C16_Witness ==
    /\ frame.pc = "run"
    /\ StagesRun = 2
    /\ \E i \in Calls : calls[i].pc = "await"

\* C17: for every successful fetch_tile(c, L) the request handed to the
\* pipeline carries c, the processor callback receives c, and every layer of
\* the tile returned has coordinate c, the coordinate of the tile holding it.
C17_LayersCarryCoordinate ==
    ret.fetch = "Ok"
        => /\ ret.tile.coords = ret.coords
           /\ TileRequest(ret.coords, ret.layers).coords = ret.coords
           /\ \A k \in 1..Len(ret.emitted) : ret.emitted[k].coords = ret.coords
           /\ \A k \in 1..Len(ret.tile.layers) :
                 ret.tile.layers[k].coords = ret.tile.coords

\* the requested names that the fetched data holds and that decode
DecodedNames(data, layers) == {n \in layers : Decodable(data, n)}

\* C18: decode failures are swallowed. Whenever the fetch succeeds fetch_tile
\* returns Ok with a tile of status Success, never Failed or Pending and
\* never an error, even when requested layers are absent from the data or do
\* not decode: the tile then has fewer layers, down to none; the failed
\* fetch is the only error fetch_tile returns.
C18_DecodeFailuresSwallowed ==
    /\ ret.fetch = "Ok"
          => /\ ret.kind = "Ok"
             /\ ret.error = None
             /\ ret.tile.status = "Success"
             /\ Len(ret.tile.layers) = Cardinality(DecodedNames(ret.data, ret.layers))
             /\ Len(ret.tile.layers) <= Cardinality(ret.layers)
    /\ ret.kind = "Err" => (ret.fetch = "Err" /\ ret.error = FetchError)

\* both layers were requested; the data holds one that does not decode and
\* lacks the other: fetch_tile returned Ok with an empty tile of status Success
C18_Witness ==
    /\ ret.kind = "Ok"
    /\ ret.layers = LayerNames
    /\ Len(ret.data) = 1
    /\ ~ret.data[1].ok
    /\ ret.tile.layers = <<>>
    /\ ret.tile.status = "Success"

\* the names of the layers of a tile, in order
LayerNamesOf(tile) == [k \in 1..Len(tile.layers) |-> tile.layers[k].layer_name]

\* the names of the requested layers that decode, in the order of the data
OwnNames(data, layers) ==
    LET Mine(l) == l.name \in layers /\ l.ok
        mine == SelectSeq(data, Mine)
    IN [k \in 1..Len(mine) |-> mine[k].name]

\* C19: each fetch_tile call collects its layers in a processor of its own.
\* The tile a call returns holds the layers of this call's data and request
\* and no layer of another call, also when the fetches of two calls were in
\* flight at once; the tile is fixed by the call's coordinate, layer names
\* and fetched data.
C19_FreshProcessorPerCall ==
    ret.fetch = "Ok"
        => /\ LayerNamesOf(ret.tile) = OwnNames(ret.data, ret.layers)
           /\ ret.tile.coords = ret.coords
           /\ ret.tile =
                 StoredTile_success(ret.coords,
                     pipeline_process(
                         TileRequest(ret.coords, ret.layers), ret.data,
                         PipelineContext_new(HeadlessPipelineProcessor_default)
                     ).processor.layers)

\* two calls were in flight at once and both have returned; the second one
\* to start, which asked for water alone from data holding both layers,
\* returned last, with water alone
C19_Witness ==
    /\ ret.fetch = "Ok"
    /\ ret.call = 2
    /\ \A i \in Calls : calls[i].pc = "idle"
    /\ ret.layers = {"water"}
    /\ Len(ret.data) = 2
    /\ LayerNamesOf(ret.tile) = <<"water">>

====
